---- MODULE Spec2Model ----
(***************************************************************************)
(* bleexplore.py: the scanner/registry (main.detection_callback), the      *)
(* per-device supervisor (device_task, device_explore, MyClient) and the   *)
(* shutdown coordinator (main), as a state machine.  One action is one run *)
(* of a callback or of a coroutine from one suspension point (await) to    *)
(* the next: asyncio runs everything between two awaits without            *)
(* interleaving.                                                           *)
(*                                                                         *)
(* polartest.py, the second program of the repository, is modelled at the  *)
(* end of the module.  It has the same state by the same names (sys.argv,  *)
(* main.tasks, main.stop_event, the frame of main, statistics), so its     *)
(* specification runs on the same variables and leaves the others alone.   *)
(***************************************************************************)
EXTENDS Integers, Sequences, FiniteSets, TLC

VARIABLES
    sys_argv,          \* sys.argv: the program name and the positional arguments
    tasks,             \* main.tasks: device name -> the Task and its coroutine frame
    order,             \* insertion order of the keys of main.tasks (a dict keeps it)
    task_stop_events,  \* main.task_stop_events: device name -> Event.is_set()
    spawned,           \* device name -> number of asyncio.create_task calls made for it
    stop_event, \* main.stop_event.is_set()
    last_stop_time,    \* main.last_stop_time
    main,              \* the frame of the coroutine main: pc, dict iterator, output
    sigints,           \* number of SIGINTs delivered so far
    statistics,        \* the module's statistics: device name -> measurement -> count
    seen               \* what was observed so far: per device the advertisements
                       \* delivered, the connect attempts failed in a row and the
                       \* connections made; the last call of the capability
                       \* matcher; per device and characteristic the payloads
                       \* delivered and those a decoder failed on, and the last
                       \* payload's dispatch; the last write_gatt_char call

vars == <<sys_argv, tasks, order, task_stop_events, spawned, stop_event,
          last_stop_time, main, sigints, statistics, seen>>

-----------------------------------------------------------------------------
(* Bounds of the model. *)

\* The transport fails at most this many connect attempts in a row.
MaxFails == 2
\* The operator sends at most this many interrupts.
MaxInterrupts == 2
\* time() returns up to this many units more than Epoch + Window.
MaxLate == 1
\* Connections of one supervisor are counted up to this many.
MaxCycles == 1
\* Advertisements of one peripheral are counted up to this many.
MaxAdverts == 2
\* The transport delivers at most this many payloads of one characteristic.
MaxPayloads == 3

-----------------------------------------------------------------------------
(* Strings.  TLC cannot take a string apart, so Chars gives the characters *)
(* of every string the model uses; lower() and `in` work on those.         *)

None == "<None>"

Chars(s) ==
    CASE s = "PolarH10"   -> <<"P","o","l","a","r","H","1","0">>
      [] s = "MoxySensor" -> <<"M","o","x","y","S","e","n","s","o","r">>
      [] s = "PolarSense" -> <<"P","o","l","a","r","S","e","n","s","e">>
      [] s = "polar"      -> <<"p","o","l","a","r">>
      [] s = "Polar"      -> <<"P","o","l","a","r">>
      [] s = "POLAR"      -> <<"P","O","L","A","R">>
      [] s = "moxy"       -> <<"m","o","x","y">>
      [] s = "bleexplore.py" -> <<"b","l","e">>

UpperLetters == <<"A","E","H","L","M","O","P","R","S","X","Y">>
LowerLetters == <<"a","e","h","l","m","o","p","r","s","x","y">>

\* str.lower() on one character
LowerChar(c) ==
    IF \E i \in DOMAIN UpperLetters : UpperLetters[i] = c
    THEN LowerLetters[CHOOSE i \in DOMAIN UpperLetters : UpperLetters[i] = c]
    ELSE c

\* str.lower()
Lower(cs) == [i \in DOMAIN cs |-> LowerChar(cs[i])]

\* Python's `sub in s` on strings
IsSubstring(sub, s) ==
    \E i \in 0..(Len(s) - Len(sub)) : SubSeq(s, i + 1, i + Len(sub)) = sub

-----------------------------------------------------------------------------
(* The environment: peripherals in range and the command lines tried.      *)

\* dev.name of the advertising peripherals; None is a peripheral without a name
Advertisers == {"PolarH10", "MoxySensor", None}

CommandLines ==
    { <<"bleexplore.py">>,
      <<"bleexplore.py", "polar">>,
      <<"bleexplore.py", "moxy", "POLAR">> }

\* time() at program start: seconds since 1970, far more than 4
Epoch == 5

\* the reference window of `stop_time - last_stop_time > 4`
Window == 4

\* the values time() may return: the start, a moment later, one window later
\* and later than that
Times == {Epoch, Epoch + 1, Epoch + Window, Epoch + Window + MaxLate}

-----------------------------------------------------------------------------
(* __main__ *)

\* name = 'Polar' if len(sys.argv) == 1 else sys.argv[1]
name == IF Len(sys_argv) = 1 THEN "Polar" ELSE sys_argv[2]

\* asyncio.run(main(sys.argv[1:])): the argv parameter of main
argv == Tail(sys_argv)

-----------------------------------------------------------------------------
(* The support table and the capability matcher *)

\* the keys of supported_characteristics
SupportedServices ==
    {"Battery Service", "Current Time Service", "Heart Rate", "Device Information",
     "Moxy SMO2 Service", "Polar Feature Configuration Service",
     "Polar Measurement Data Service", "ZwiftPlay Service",
     "VO2_MASTER_CUSTOM_SERVICE", "Nordic UART Service"}

\* the keys whose entry is None
NoneServices == {"Current Time Service"}

\* supported_characteristics[service], for the entries that are a dict
supported_characteristics(service) ==
    CASE service = "Battery Service" ->
           [read |-> <<"Battery Level">>, notify |-> <<>>, ignore |-> <<>>]
      [] service = "Heart Rate" ->
           [read |-> <<"Heart Rate Control Point">>,
            notify |-> <<"Heart Rate Measurement">>,
            ignore |-> <<"Body Sensor Location">>]
      [] service = "Device Information" ->
           [read |-> <<"Manufacturer Name String", "Model Number String",
                       "Serial Number String", "Hardware Revision String",
                       "Firmware Revision String", "Software Revision String">>,
            ignore |-> <<"PnP ID", "System ID",
                         "IEEE 11073-20601 Regulatory Certification Data List">>]
      [] service = "Moxy SMO2 Service" ->
           [read |-> <<>>,
            notify |-> <<"Moxy SMO2 Data">>,
            ignore |-> <<"Moxy SMO2 Data Packet", "Moxy SMO2 Data Point Value",
                         "Moxy SMO2 Data Point Control", "Moxy SMO2 Data Range Request",
                         "Moxy SMO2 Data Point Upload">>]
      [] service = "Polar Feature Configuration Service" ->
           [notify |-> <<"Polar PFC Control Point">>]
      [] service = "Polar Measurement Data Service" ->
           [notify |-> <<"Polar PMD Control Point", "Polar PMD Data">>]
      [] service = "ZwiftPlay Service" ->
           [notify |-> <<"ZwiftPlay Data", "ZwiftPlay Left", "ZwiftPlay Right",
                         "ZwiftPlay Response">>]
      [] service = "VO2_MASTER_CUSTOM_SERVICE" ->
           [notify |-> <<"COM_OUT_UUID", "AMBIENT_GAS_CALIBRATION_CHARACTERISTIC",
                         "VENTILATORY_CHARACTERISTIC", "GAS_EXCHANGE_CHARACTERISTIC",
                         "SYRINGE_FLOW_CALIBRATION_CHARACTERISTIC",
                         "ENVIRONMENT_CHARACTERISTIC">>]
      [] service = "Nordic UART Service" ->
           [notify |-> <<"Nordic UART TX", "Nordic UART RX">>]

\* Python's `x in list`
InList(x, list) == \E i \in DOMAIN list : list[i] = x

\* supported_characteristic looking the name up under every category of the
\* service
supported_in_any_category(service_name, characteristic_name, characteristic_type) ==
    /\ service_name \in SupportedServices \ NoneServices
    /\ characteristic_type \in DOMAIN supported_characteristics(service_name)
    /\ \E c \in DOMAIN supported_characteristics(service_name) :
          InList(characteristic_name, supported_characteristics(service_name)[c])

\* supported_characteristic answering False for the category 'ignore'
supported_for_action(service_name, characteristic_name, characteristic_type) ==
    /\ characteristic_type # "ignore"
    /\ service_name \in SupportedServices \ NoneServices
    /\ characteristic_type \in DOMAIN supported_characteristics(service_name)
    /\ InList(characteristic_name,
              supported_characteristics(service_name)[characteristic_type])

\* device_explore.supported_characteristic.  The third test reads the enclosing
\* loop's char_uuid, which names the same characteristic at both call sites.
supported_characteristic(service_name, characteristic_name, characteristic_type) ==
    IF service_name \notin SupportedServices \/ service_name \in NoneServices
    THEN FALSE
    ELSE IF characteristic_type \notin DOMAIN supported_characteristics(service_name)
    THEN FALSE
    ELSE IF ~InList(characteristic_name,
                    supported_characteristics(service_name)[characteristic_type])
    THEN FALSE
    ELSE TRUE

\* the service names the matcher is asked about: the keys of the table and one
\* that is no key
ServiceNames == SupportedServices \cup {"Generic Access"}

\* the names listed under any category of a service
ListedNames(service) ==
    UNION { {supported_characteristics(service)[c][i] :
                i \in DOMAIN supported_characteristics(service)[c]} :
            c \in DOMAIN supported_characteristics(service) }

\* the characteristic names the matcher is asked about: every listed name, a
\* name listed nowhere, and a listed name in another case
CharacteristicNames ==
    UNION { ListedNames(service) : service \in SupportedServices \ NoneServices }
    \cup {"Device Name", "heart rate measurement"}

\* the categories of the table
CharacteristicTypes == {"read", "notify", "ignore"}

\* one call of supported_characteristic, its arguments and answer kept
Match(service_name, characteristic_name, characteristic_type) ==
    /\ seen' = [seen EXCEPT !.match =
                  [service_name |-> service_name,
                   characteristic_name |-> characteristic_name,
                   characteristic_type |-> characteristic_type,
                   result |-> supported_characteristic(service_name,
                                 characteristic_name, characteristic_type)]]
    /\ UNCHANGED <<statistics, sys_argv, tasks, order, task_stop_events, spawned,
                   stop_event, last_stop_time, main, sigints>>

-----------------------------------------------------------------------------
(* What the transport reports of a connected peripheral: client.services.  *)

Profile(dev) ==
    CASE dev = "PolarH10" ->
           << [service |-> "Heart Rate",
               characteristics |->
                 << [name |-> "Heart Rate Measurement", properties |-> {"notify"}],
                    [name |-> "Body Sensor Location", properties |-> {"read"}],
                    [name |-> "Heart Rate Control Point", properties |-> {"read"}] >>],
              [service |-> "Polar Measurement Data Service",
               characteristics |->
                 << [name |-> "Polar PMD Control Point", properties |-> {"write"}] >>],
              [service |-> "Generic Access",
               characteristics |->
                 << [name |-> "Device Name", properties |-> {"read"}] >>] >>
      [] dev = "MoxySensor" ->
           << [service |-> "Moxy SMO2 Service",
               characteristics |->
                 << [name |-> "Moxy SMO2 Data", properties |-> {"read", "indicate"}] >>],
              [service |-> "VO2_MASTER_CUSTOM_SERVICE",
               characteristics |->
                 << [name |-> "COM_IN_UUID", properties |-> {"write"}] >>] >>
      [] OTHER -> << >>

\* ServiceOps without the calls of supported_characteristic
ServiceOpsUnfiltered(service) ==
    LET IsRead(c) == "read" \in c.properties
        IsNotify(c) == "notify" \in c.properties \/ "indicate" \in c.properties
        reads == SelectSeq(service.characteristics, IsRead)
        notifications == SelectSeq(service.characteristics, IsNotify)
    IN  [i \in DOMAIN reads |->
            [kind |-> "read", service |-> service.service, name |-> reads[i].name]]
        \o
        [i \in DOMAIN notifications |->
            [kind |-> "notify", service |-> service.service,
             name |-> notifications[i].name]]

\* ServiceOps with the loop over reads run twice
ServiceOpsReadsTwice(service) ==
    LET IsRead(c) == /\ "read" \in c.properties
                     /\ supported_characteristic(service.service, c.name, "read")
        IsNotify(c) == /\ ("notify" \in c.properties \/ "indicate" \in c.properties)
                       /\ supported_characteristic(service.service, c.name, "notify")
        reads == SelectSeq(service.characteristics, IsRead)
        notifications == SelectSeq(service.characteristics, IsNotify)
    IN  [i \in DOMAIN (reads \o reads) |->
            [kind |-> "read", service |-> service.service,
             name |-> (reads \o reads)[i].name]]
        \o
        [i \in DOMAIN notifications |->
            [kind |-> "notify", service |-> service.service,
             name |-> notifications[i].name]]

\* device_explore, one service: the reads it will issue, then the subscriptions
ServiceOps(service) ==
    LET IsRead(c) == /\ "read" \in c.properties
                     /\ supported_characteristic(service.service, c.name, "read")
        IsNotify(c) == /\ ("notify" \in c.properties \/ "indicate" \in c.properties)
                       /\ supported_characteristic(service.service, c.name, "notify")
        reads == SelectSeq(service.characteristics, IsRead)
        notifications == SelectSeq(service.characteristics, IsNotify)
    IN  [i \in DOMAIN reads |->
            [kind |-> "read", service |-> service.service, name |-> reads[i].name]]
        \o
        [i \in DOMAIN notifications |->
            [kind |-> "notify", service |-> service.service,
             name |-> notifications[i].name]]

RECURSIVE OpsFrom(_, _)
OpsFrom(services, i) ==
    IF i > Len(services) THEN << >>
    ELSE ServiceOps(services[i]) \o OpsFrom(services, i + 1)

\* device_explore: the transport calls of one exploration, in the order of
\* `for service in client.services`
ExploreOps(dev) == OpsFrom(Profile(dev), 1)

\* the characteristics some peripheral's exploration subscribes to
Measurements ==
    UNION { {ExploreOps(dev)[i].name :
                i \in {k \in DOMAIN ExploreOps(dev) :
                          ExploreOps(dev)[k].kind = "notify"}} :
            dev \in Advertisers \ {None} }

\* main.supported_devices
supported_devices == <<"Polar", "Moxy", "VO2Master">>

\* decoder.service_check(services): the decoder's own service was discovered
service_check(decoder, dev) ==
    LET key == CASE decoder = "Polar" -> "Polar Measurement Data Service"
                 [] decoder = "Moxy" -> "Moxy SMO2 Service"
                 [] decoder = "VO2Master" -> "VO2_MASTER_CUSTOM_SERVICE"
    IN  \E i \in DOMAIN Profile(dev) : Profile(dev)[i].service = key

-----------------------------------------------------------------------------
(* The supervisor: device_task, device_explore and MyClient.  A frame is   *)
(* the Task with the state of its coroutine; pc names the await the        *)
(* coroutine is suspended at.  The operators below run the code from one   *)
(* point up to the next await; they take the frame t and e, the            *)
(* is_set() of the device's task_stop_event, and give both back.           *)

\* asyncio.create_task(device_task(...)): a Task that has not run yet.  Of the
\* device_explore under way the frame keeps the read and start_notify calls made
\* on the client (calls) and the decoders whose start was called (started); of
\* the client it keeps the characteristics it delivers payloads of (subscribed)
NewTask ==
    [pc |-> "new", must_cancel |-> FALSE, client |-> FALSE, connected |-> FALSE,
     op |-> 0, dec |-> 0,
     calls |-> << >>, started |-> << >>, subscribed |-> {},
     cycle_disconnects |-> 0, final_disconnects |-> 0, interrupted |-> "none",
     handler |-> "none", raised |-> "none", result |-> "pending", reported |-> "none"]

\* the awaits of device_task and of what it calls
Awaits == {"connecting", "read", "notify", "backoff", "starting", "write",
           "write_backoff", "running", "disconnecting", "final_disconnect"}

\* MyClient.connect up to `await self.client.connect(timeout=10.)`: the event is
\* cleared and a new BleakClient made
connect(t, e) ==
    [t |-> [t EXCEPT !.pc = "connecting", !.client = TRUE, !.connected = FALSE,
                     !.op = 0, !.dec = 0, !.calls = << >>, !.started = << >>,
                     !.subscribed = {}],
     e |-> FALSE]

\* after_explore without the is_connected test
disconnect_unconditionally(t, e) ==
    [t |-> [t EXCEPT !.pc = "disconnecting", !.op = 0, !.dec = 0,
                     !.calls = << >>, !.started = << >>,
                     !.cycle_disconnects = @ + 1],
     e |-> e]

\* device_task after device_explore returned: disconnect if connected, else
\* clear the event and go round the loop
after_explore(t, e) ==
    IF t.connected
    THEN [t |-> [t EXCEPT !.pc = "disconnecting", !.op = 0, !.dec = 0,
                          !.calls = << >>, !.started = << >>,
                          !.cycle_disconnects = @ + 1],
          e |-> e]
    ELSE connect(t, FALSE)

\* device_explore: `await task_stop_event.wait()`, which returns at once when set
wait_stop(t, e) ==
    IF e THEN after_explore(t, e)
    ELSE [t |-> [t EXCEPT !.pc = "running", !.op = 0, !.dec = 0], e |-> e]

\* device_explore: the decoder loop from decoder j on, up to the next device.start
start_from(dev, t, e, j) ==
    LET present == {k \in j..Len(supported_devices) :
                        service_check(supported_devices[k], dev)}
    IN  IF present = {} THEN wait_stop(t, e)
        ELSE LET first == CHOOSE k \in present : \A m \in present : k <= m
             IN  [t |-> [t EXCEPT !.pc = "starting", !.op = 0, !.dec = first,
                                  !.started = Append(@, supported_devices[first])],
                  e |-> e]

\* explore_from without the is_set() test of read_gatt_char and start_notify
explore_from_unchecked(dev, t, e, i) ==
    IF i > Len(ExploreOps(dev)) THEN start_from(dev, t, e, 1)
    ELSE [t |-> [t EXCEPT !.pc = ExploreOps(dev)[i].kind, !.op = i,
                          !.calls = Append(@, ExploreOps(dev)[i])],
          e |-> e]

\* device_explore: the reads and subscriptions from the i-th on.  read_gatt_char
\* and start_notify return None / False without a transport call when the event
\* is set, and device_explore then returns False
explore_from(dev, t, e, i) ==
    IF i > Len(ExploreOps(dev)) THEN start_from(dev, t, e, 1)
    ELSE IF e THEN after_explore(t, e)
    ELSE [t |-> [t EXCEPT !.pc = ExploreOps(dev)[i].kind, !.op = i,
                          !.calls = Append(@, ExploreOps(dev)[i])],
          e |-> e]

\* MyClient.write_gatt_char up to its first await: False at once when the event
\* is set, else `await self.client.write_gatt_char(char_uuid, command)`
write_gatt_char(t, e) ==
    IF e THEN [t |-> t, e |-> e, issued |-> FALSE, result |-> "False"]
    ELSE [t |-> [t EXCEPT !.pc = "write"], e |-> e, issued |-> TRUE,
          result |-> "pending"]

\* device_task: the except clause `handler` ran and raised exc; the finally block
\* up to `await myclient.disconnect()`
finalize(t, handler, exc) ==
    [t EXCEPT !.pc = "final_disconnect", !.op = 0, !.dec = 0,
              !.calls = << >>, !.started = << >>, !.interrupted = t.pc,
              !.handler = handler, !.raised = exc, !.final_disconnects = @ + 1]

\* handle_task_result, the done callback of the Task, which runs as soon as the
\* Task is done: task.result() gives the value or raises CancelledError
handle_task_result(t) ==
    [t EXCEPT !.pc = "done",
              !.reported = IF t.result = "cancelled" THEN "Cancelled" ELSE "Finished"]

\* device_task: `return True` in the finally block, which drops the exception
\* in flight
return_true(t) ==
    handle_task_result([t EXCEPT !.raised = "none", !.result = "True"])

\* a step of the device's Task: it leaves the other Tasks and main alone
Step(dev, r) ==
    /\ tasks' = [tasks EXCEPT ![dev] = r.t]
    /\ task_stop_events' = [task_stop_events EXCEPT ![dev] = r.e]
    /\ UNCHANGED <<statistics, sys_argv, order, spawned, stop_event, last_stop_time,
                   main, sigints>>

\* a step of the device's Task that is none of the transport's counted answers
Resume(dev, r) == Step(dev, r) /\ UNCHANGED seen

\* the Task runs its coroutine on from the await at `at`
Suspended(dev, at) ==
    /\ dev \in DOMAIN tasks
    /\ tasks[dev].pc = at
    /\ ~tasks[dev].must_cancel

-----------------------------------------------------------------------------
(* The supervisor's steps *)

\* the Task's first step: device_task up to the await in MyClient.connect
TaskStart(dev) ==
    /\ Suspended(dev, "new")
    /\ Resume(dev, connect(tasks[dev], task_stop_events[dev]))

\* client.connect returns: connect returns True and device_explore begins
ConnectSucceeds(dev) ==
    /\ Suspended(dev, "connecting")
    /\ Step(dev, explore_from(dev,
                    [tasks[dev] EXCEPT !.connected = TRUE, !.cycle_disconnects = 0],
                    task_stop_events[dev], 1))

\* ConnectFails with a cap: the second failure in a row ends device_task
ConnectFailsCapped(dev) ==
    /\ Suspended(dev, "connecting")
    /\ IF seen.fails[dev] >= 1
       THEN Step(dev, [t |-> return_true(tasks[dev]), e |-> TRUE])
       ELSE Step(dev, connect(tasks[dev], TRUE))

\* client.connect raises TimeoutError, BleakError or another Exception: connect
\* sets the event and returns False, and `continue` calls connect again
ConnectFails(dev) ==
    /\ Suspended(dev, "connecting")
    /\ \E exc \in {"TimeoutError", "BleakError", "Exception"} :
          Step(dev, connect(tasks[dev], TRUE))

\* client.read_gatt_char returns the value
ReadReturns(dev) ==
    /\ Suspended(dev, "read")
    /\ Resume(dev, explore_from(dev, tasks[dev], task_stop_events[dev],
                                tasks[dev].op + 1))

\* client.read_gatt_char raises: EOFError and BleakError set the event and sleep,
\* any other Exception reaches device_explore, which returns False
ReadFails(dev) ==
    /\ Suspended(dev, "read")
    /\ \E exc \in {"EOFError", "BleakError", "Exception"} :
          IF exc = "Exception"
          THEN Resume(dev, after_explore(tasks[dev], task_stop_events[dev]))
          ELSE Resume(dev, [t |-> [tasks[dev] EXCEPT !.pc = "backoff"], e |-> TRUE])

\* client.start_notify returns
NotifyReturns(dev) ==
    /\ Suspended(dev, "notify")
    /\ Resume(dev, explore_from(dev,
                      [tasks[dev] EXCEPT !.subscribed =
                                            @ \cup {ExploreOps(dev)[tasks[dev].op].name}],
                      task_stop_events[dev], tasks[dev].op + 1))

\* client.start_notify raises: BleakError sleeps (the event is left alone), any
\* other Exception reaches device_explore, which returns False
NotifyFails(dev) ==
    /\ Suspended(dev, "notify")
    /\ \E exc \in {"BleakError", "Exception"} :
          IF exc = "Exception"
          THEN Resume(dev, after_explore(tasks[dev], task_stop_events[dev]))
          ELSE Resume(dev, [t |-> [tasks[dev] EXCEPT !.pc = "backoff"],
                            e |-> task_stop_events[dev]])

\* BackoffEnds with device_explore going on to the next characteristic
BackoffEndsGoesOn(dev) ==
    /\ Suspended(dev, "backoff")
    /\ Resume(dev, explore_from(dev, tasks[dev], FALSE, tasks[dev].op + 1))

\* `await asyncio.sleep(2)` ends: None / False goes back to device_explore, which
\* returns False
BackoffEnds(dev) ==
    /\ Suspended(dev, "backoff")
    /\ Resume(dev, after_explore(tasks[dev], task_stop_events[dev]))

\* StartReturns with the wait for the stop signal begun at once
StartReturnsToWait(dev) ==
    /\ Suspended(dev, "starting")
    /\ Resume(dev, wait_stop(tasks[dev], task_stop_events[dev]))

\* device.start returns: on to the next decoder
StartReturns(dev) ==
    /\ Suspended(dev, "starting")
    /\ Resume(dev, start_from(dev, tasks[dev], task_stop_events[dev],
                              tasks[dev].dec + 1))

\* device.start raises: the except clause around the decoder loop ends the loop
StartRaises(dev) ==
    /\ Suspended(dev, "starting")
    /\ Resume(dev, wait_stop(tasks[dev], task_stop_events[dev]))

\* device.start calls myclient.write_gatt_char: the call, the event as the call
\* found it and the answer are kept in seen.write
StartWrites(dev) ==
    /\ Suspended(dev, "starting")
    /\ LET r == write_gatt_char(tasks[dev], task_stop_events[dev])
       IN  /\ Step(dev, r)
           /\ seen' = [seen EXCEPT !.write =
                         [device_name |-> dev, set |-> task_stop_events[dev],
                          issued |-> r.issued, result |-> r.result]]

\* client.write_gatt_char returns: write_gatt_char returns True to device.start
WriteReturns(dev) ==
    /\ Suspended(dev, "write")
    /\ Step(dev, [t |-> [tasks[dev] EXCEPT !.pc = "starting"],
                  e |-> task_stop_events[dev]])
    /\ seen' = [seen EXCEPT !.write.result = "True"]

\* client.write_gatt_char raises: EOFError and BleakError set the event, and
\* these and any other Exception sleep
WriteFails(dev) ==
    /\ Suspended(dev, "write")
    /\ \E exc \in {"EOFError", "BleakError", "Exception"} :
          Resume(dev, [t |-> [tasks[dev] EXCEPT !.pc = "write_backoff"],
                       e |-> IF exc = "Exception" THEN task_stop_events[dev]
                             ELSE TRUE])

\* `await asyncio.sleep(2)` of write_gatt_char ends: False goes back to
\* device.start
WriteBackoffEnds(dev) ==
    /\ Suspended(dev, "write_backoff")
    /\ Step(dev, [t |-> [tasks[dev] EXCEPT !.pc = "starting"],
                  e |-> task_stop_events[dev]])
    /\ seen' = [seen EXCEPT !.write.result = "False"]

\* StopWaitReturns with a wait that returns whether or not the event is set
StopWaitReturnsUnset(dev) ==
    /\ Suspended(dev, "running")
    /\ Resume(dev, after_explore(tasks[dev], task_stop_events[dev]))

\* task_stop_event.wait() returns: device_explore returns True
StopWaitReturns(dev) ==
    /\ Suspended(dev, "running")
    /\ task_stop_events[dev]
    /\ Resume(dev, after_explore(tasks[dev], task_stop_events[dev]))

\* DisconnectReturns with a `return` in place of the loop's `continue`
DisconnectReturnsOnce(dev) ==
    /\ Suspended(dev, "disconnecting")
    /\ Resume(dev, [t |-> return_true([tasks[dev] EXCEPT !.connected = FALSE]),
                    e |-> FALSE])

\* myclient.disconnect() of the loop returns: the event is cleared and connect
\* called again
DisconnectReturns(dev) ==
    /\ Suspended(dev, "disconnecting")
    /\ Resume(dev, connect([tasks[dev] EXCEPT !.connected = FALSE], FALSE))

\* myclient.disconnect() of the loop raises: `except Exception` logs, raises
\* CancelledError, and the finally block runs
DisconnectRaises(dev) ==
    /\ Suspended(dev, "disconnecting")
    /\ Resume(dev, [t |-> finalize(tasks[dev], "Exception", "CancelledError"),
                    e |-> task_stop_events[dev]])

\* CancelDelivered with no finally block: CancelledError ends the Task at once
CancelDeliveredNoFinally(dev) ==
    /\ dev \in DOMAIN tasks
    /\ tasks[dev].must_cancel
    /\ tasks[dev].pc \in Awaits \cup {"new"}
    /\ Resume(dev, [t |-> handle_task_result(
                             [tasks[dev] EXCEPT !.must_cancel = FALSE,
                                                !.interrupted = tasks[dev].pc,
                                                !.handler = "CancelledError",
                                                !.result = "cancelled"]),
                    e |-> task_stop_events[dev]])

\* Task.cancel() takes effect at the Task's next step.  A Task that never ran
\* ends cancelled without running any of device_task.  In the try block
\* CancelledError is raised at the await; `except asyncio.CancelledError:` reads
\* the unbound local e, which raises UnboundLocalError, and the finally block
\* runs.  At the await of the finally block CancelledError passes
\* `except Exception` and leaves device_task before `return True`
CancelDelivered(dev) ==
    /\ dev \in DOMAIN tasks
    /\ tasks[dev].must_cancel
    /\ CASE tasks[dev].pc = "new" ->
               Resume(dev, [t |-> handle_task_result(
                                    [tasks[dev] EXCEPT !.must_cancel = FALSE,
                                                       !.interrupted = "new",
                                                       !.result = "cancelled"]),
                            e |-> task_stop_events[dev]])
         [] tasks[dev].pc = "final_disconnect" ->
               Resume(dev, [t |-> handle_task_result(
                                    [tasks[dev] EXCEPT !.must_cancel = FALSE,
                                                       !.raised = "CancelledError",
                                                       !.result = "cancelled"]),
                            e |-> task_stop_events[dev]])
         [] tasks[dev].pc \in Awaits \ {"final_disconnect"} ->
               Resume(dev, [t |-> finalize([tasks[dev] EXCEPT !.must_cancel = FALSE],
                                           "CancelledError", "UnboundLocalError"),
                            e |-> task_stop_events[dev]])
         [] OTHER -> FALSE

\* myclient.disconnect() of the finally block returns (the transport's
\* disconnected_callback sets the event if the link was up), then `return True`
FinalDisconnectReturns(dev) ==
    /\ Suspended(dev, "final_disconnect")
    /\ Resume(dev, [t |-> return_true([tasks[dev] EXCEPT !.connected = FALSE]),
                    e |-> task_stop_events[dev] \/ tasks[dev].connected])

\* myclient.disconnect() of the finally block raises: logged, then `return True`
FinalDisconnectRaises(dev) ==
    /\ Suspended(dev, "final_disconnect")
    /\ Resume(dev, [t |-> return_true(tasks[dev]), e |-> task_stop_events[dev]])

\* disconnected_callback setting one event shared by all the supervisors
disconnected_callback_shared(dev) ==
    /\ dev \in DOMAIN tasks
    /\ tasks[dev].connected
    /\ tasks' = [tasks EXCEPT ![dev].connected = FALSE]
    /\ task_stop_events' = [n \in DOMAIN task_stop_events |-> TRUE]
    /\ UNCHANGED <<statistics, sys_argv, order, spawned, stop_event, last_stop_time,
                   main, sigints, seen>>

\* MyClient.disconnected_callback: the transport lost the link
disconnected_callback(dev) ==
    /\ dev \in DOMAIN tasks
    /\ tasks[dev].connected
    /\ Resume(dev, [t |-> [tasks[dev] EXCEPT !.connected = FALSE], e |-> TRUE])

-----------------------------------------------------------------------------
(* The scanner: main.detection_callback *)

\* Wanted without `dev.name not in tasks`
WantedAgain(dev) ==
    /\ dev # None
    /\ \E i \in DOMAIN argv : IsSubstring(Lower(Chars(argv[i])), Lower(Chars(dev)))

\* Wanted without the two lower() calls
WantedCaseSensitive(dev) ==
    /\ dev # None
    /\ dev \notin DOMAIN tasks
    /\ \E i \in DOMAIN argv : IsSubstring(Chars(argv[i]), Chars(dev))

\* the test of detection_callback: the name is there, not yet a key of tasks,
\* and some argument is, in lower case, part of the name in lower case
Wanted(dev) ==
    /\ dev # None
    /\ dev \notin DOMAIN tasks
    /\ \E i \in DOMAIN argv : IsSubstring(Lower(Chars(argv[i])), Lower(Chars(dev)))

\* the BleakScanner of main is running (`async with` not left yet)
Scanning == main.pc \in {"wait", "await_task", "gather"}

\* Python's d[k] = v
SetItem(d, k, v) == [x \in DOMAIN d \cup {k} |-> IF x = k THEN v ELSE d[x]]

detection_callback(dev) ==
    /\ Scanning
    /\ IF Wanted(dev)
       THEN /\ task_stop_events' = SetItem(task_stop_events, dev, FALSE)
            /\ tasks' = SetItem(tasks, dev, NewTask)
            /\ order' = IF dev \in DOMAIN tasks THEN order ELSE Append(order, dev)
            /\ spawned' = [spawned EXCEPT ![dev] = @ + 1]
       ELSE UNCHANGED <<task_stop_events, tasks, order, spawned>>
    /\ UNCHANGED <<statistics, sys_argv, stop_event, last_stop_time, main, sigints>>

-----------------------------------------------------------------------------
(* The notification dispatcher: MyClient.notification *)

\* the decoders of supported_devices
Decoders == {supported_devices[i] : i \in DOMAIN supported_devices}

\* statistics[device_name][measurement_name], 0 while there is no such entry
counter(device_name, measurement_name) ==
    IF device_name \in DOMAIN statistics
    THEN IF measurement_name \in DOMAIN statistics[device_name]
         THEN statistics[device_name][measurement_name]
         ELSE 0
    ELSE 0

\* `for device in supported_devices`: the decoders whose notification is called
\* when those of claimers answer data_check with True and those of raisers raise
\* in notification.  The first to raise ends the loop
invoked(claimers, raisers) ==
    {supported_devices[i] : i \in
        {k \in DOMAIN supported_devices :
            /\ supported_devices[k] \in claimers
            /\ \A j \in 1..(k - 1) :
                  supported_devices[j] \notin claimers \cap raisers}}

\* notification with the counter raised once for each decoder that claims
notification_per_claim(device_name, measurement_name, claimers, raisers) ==
    LET made == IF device_name \in DOMAIN statistics THEN statistics
                ELSE SetItem(statistics, device_name, << >>)
    IN  [statistics |->
            SetItem(made, device_name,
                    SetItem(made[device_name], measurement_name,
                            counter(device_name, measurement_name)
                               + Cardinality(claimers))),
         invoked |-> invoked(claimers, raisers),
         raised |-> FALSE]

\* notification without its try statement: a decoder's exception leaves it
notification_without_try(device_name, measurement_name, claimers, raisers) ==
    LET made == IF device_name \in DOMAIN statistics THEN statistics
                ELSE SetItem(statistics, device_name, << >>)
    IN  IF claimers \cap raisers # {}
        THEN [statistics |-> made, invoked |-> invoked(claimers, raisers),
              raised |-> TRUE]
        ELSE [statistics |->
                 SetItem(made, device_name,
                         SetItem(made[device_name], measurement_name,
                                 counter(device_name, measurement_name) + 1)),
              invoked |-> invoked(claimers, raisers),
              raised |-> FALSE]

\* notification making the entry of its device anew at every payload
notification_new_entry(device_name, measurement_name, claimers, raisers) ==
    [statistics |->
        SetItem(statistics, device_name, SetItem(<< >>, measurement_name, 1)),
     invoked |-> invoked(claimers, raisers),
     raised |-> FALSE]

\* notification writing back a dict that holds the entry of its own device only
notification_own_dict(device_name, measurement_name, claimers, raisers) ==
    [statistics |->
        SetItem(<< >>, device_name,
                SetItem(<< >>, measurement_name,
                        counter(device_name, measurement_name) + 1)),
     invoked |-> invoked(claimers, raisers),
     raised |-> FALSE]

\* MyClient.notification(sender, data, device_name, supported_devices), with
\* measurement_name = uuid_to_name(sender.uuid): the statistics it leaves, the
\* decoders it called, and whether an exception leaves it.  statistics gets its
\* device_name entry first; an exception in the loop goes to `except Exception`,
\* past the lines that count
notification(device_name, measurement_name, claimers, raisers) ==
    LET made == IF device_name \in DOMAIN statistics THEN statistics
                ELSE SetItem(statistics, device_name, << >>)
    IN  IF claimers \cap raisers # {}
        THEN [statistics |-> made, invoked |-> invoked(claimers, raisers),
              raised |-> FALSE]
        ELSE [statistics |->
                 SetItem(made, device_name,
                         SetItem(made[device_name], measurement_name,
                                 counter(device_name, measurement_name) + 1)),
              invoked |-> invoked(claimers, raisers),
              raised |-> FALSE]

\* the client of dev delivers a payload of a characteristic it was subscribed
\* to, while the link is up
Dispatch(dev, measurement_name, claimers, raisers) ==
    /\ dev \in DOMAIN tasks
    /\ tasks[dev].connected
    /\ measurement_name \in tasks[dev].subscribed
    /\ seen.payloads[dev][measurement_name] < MaxPayloads
    /\ LET r == notification(dev, measurement_name, claimers, raisers)
       IN  /\ statistics' = r.statistics
           /\ seen' = [seen EXCEPT
                         !.payloads[dev][measurement_name] = @ + 1,
                         !.faults[dev][measurement_name] =
                             IF claimers \cap raisers # {} THEN @ + 1 ELSE @,
                         !.dispatch = [device_name |-> dev,
                                       measurement_name |-> measurement_name,
                                       claimers |-> claimers, raisers |-> raisers,
                                       invoked |-> r.invoked, raised |-> r.raised]]
    /\ UNCHANGED <<sys_argv, tasks, order, task_stop_events, spawned, stop_event,
                   last_stop_time, main, sigints>>

\* a payload no decoder fails on
Deliver(dev) ==
    \E measurement_name \in Measurements, claimers \in SUBSET Decoders :
        Dispatch(dev, measurement_name, claimers, {})

\* a payload that some decoder claiming it fails on
DeliverFaulty(dev) ==
    \E measurement_name \in Measurements, claimers \in SUBSET Decoders :
        \E raisers \in (SUBSET claimers) \ {{}} :
            Dispatch(dev, measurement_name, claimers, raisers)

\* a payload claimed by the decoders whose service the peripheral has, none of
\* which fails on it
DeliverClaimed(dev) ==
    \E measurement_name \in Measurements :
        Dispatch(dev, measurement_name,
                 {decoder \in Decoders : service_check(decoder, dev)}, {})

-----------------------------------------------------------------------------
(* The shutdown coordinator: main *)

\* signal.signal(signal.SIGINT, ...): sigint_handler sets stop_event
sigint_handler ==
    /\ sigints < MaxInterrupts
    /\ main.pc \in {"wait", "await_task", "gather"}
    /\ stop_event' = TRUE
    /\ sigints' = sigints + 1
    /\ UNCHANGED <<statistics, sys_argv, tasks, order, task_stop_events, spawned,
                   last_stop_time, main, seen>>

\* main: `for name, task in tasks.items()` with i items taken so far, up to the
\* next `await task` that suspends.  The dict iterator raises RuntimeError when
\* the dict's size is no longer main.used; `await task` of a finished Task does
\* not suspend.  Gives the frame of main and the frames of the Tasks.
RECURSIVE cancel_from(_, _, _)
cancel_from(m, ts, i) ==
    IF Len(order) # m.used
    THEN [m |-> [m EXCEPT !.pc = "error_sleep", !.it = i], ts |-> ts]
    ELSE IF i >= m.used
    THEN IF m.used = 0
         THEN [m |-> [m EXCEPT !.pc = "done", !.it = i, !.printed = TRUE], ts |-> ts]
         ELSE [m |-> [m EXCEPT !.pc = "gather", !.it = i], ts |-> ts]
    ELSE IF ts[order[i + 1]].pc = "done"
    THEN cancel_from(m, ts, i + 1)
    ELSE [m |-> [m EXCEPT !.pc = "await_task", !.it = i + 1],
          ts |-> [ts EXCEPT ![order[i + 1]].must_cancel = TRUE]]

\* FreshInterrupt with no window: the first interrupt leaves the loop
NoFreshInterrupt(stop_time) == stop_time - last_stop_time > stop_time

\* FreshInterrupt with `>=` for `>`
FreshInterruptAtWindow(stop_time) == stop_time - last_stop_time >= Window

\* the comparison of main's interrupt loop: a fresh interrupt, not a repeat
FreshInterrupt(stop_time) == stop_time - last_stop_time > Window

\* main: stop_event.wait() returns and time() is read.  A fresh interrupt clears
\* stop_event, sets every task_stop_event and waits again; otherwise the while
\* loop ends and the Tasks are cancelled one by one
MainWakes ==
    /\ main.pc = "wait"
    /\ stop_event
    /\ \E stop_time \in Times :
          /\ stop_time >= last_stop_time
          /\ IF FreshInterrupt(stop_time)
             THEN /\ stop_event' = FALSE
                  /\ task_stop_events' = [n \in DOMAIN task_stop_events |-> TRUE]
                  /\ last_stop_time' = stop_time
                  /\ main' = [main EXCEPT !.stop_time = stop_time]
                  /\ UNCHANGED tasks
             ELSE LET r == cancel_from([main EXCEPT !.stop_time = stop_time,
                                                   !.used = Len(order)], tasks, 0)
                  IN  /\ main' = r.m
                      /\ tasks' = r.ts
                      /\ UNCHANGED <<stop_event, task_stop_events, last_stop_time>>
    /\ UNCHANGED <<statistics, sys_argv, order, spawned, sigints, seen>>

\* main: `await task` returns or raises CancelledError; on to the next item
MainTaskDone ==
    /\ main.pc = "await_task"
    /\ tasks[order[main.it]].pc = "done"
    /\ LET r == cancel_from(main, tasks, main.it)
       IN  /\ main' = r.m
           /\ tasks' = r.ts
    /\ UNCHANGED <<statistics, sys_argv, order, task_stop_events, spawned,
                   stop_event, last_stop_time, sigints, seen>>

\* main: asyncio.gather returns, the scanner is left and the statistics printed
MainGathered ==
    /\ main.pc = "gather"
    /\ main' = [main EXCEPT !.pc = "done", !.printed = TRUE]
    /\ UNCHANGED <<statistics, sys_argv, tasks, order, task_stop_events, spawned,
                   stop_event, last_stop_time, sigints, seen>>

\* main: `except Exception` caught the RuntimeError; after asyncio.sleep(2) main
\* returns without printing the statistics
MainErrorSleepEnds ==
    /\ main.pc = "error_sleep"
    /\ main' = [main EXCEPT !.pc = "failed"]
    /\ UNCHANGED <<statistics, sys_argv, tasks, order, task_stop_events, spawned,
                   stop_event, last_stop_time, sigints, seen>>

\* asyncio.run after main returned: every Task still pending is cancelled and
\* the loop runs until they are done
RunCleanup ==
    /\ main.pc \in {"done", "failed"}
    /\ main' = [main EXCEPT !.pc = "closing"]
    /\ tasks' = [n \in DOMAIN tasks |->
                    IF tasks[n].pc = "done" THEN tasks[n]
                    ELSE [tasks[n] EXCEPT !.must_cancel = TRUE]]
    /\ UNCHANGED <<statistics, sys_argv, order, task_stop_events, spawned,
                   stop_event, last_stop_time, sigints, seen>>

-----------------------------------------------------------------------------
(* The transport's answers, counted in `seen` or not.  A specification     *)
(* counts only what its claims speak of.                                   *)

Devices == Advertisers \ {None}

\* n + 1, counted no further than max
Count(n, max) == IF n < max THEN n + 1 ELSE n

\* an advertisement reaches detection_callback
Detect(dev) == detection_callback(dev) /\ UNCHANGED seen

Advertise(dev) ==
    /\ detection_callback(dev)
    /\ seen' = [seen EXCEPT !.adverts[dev] = Count(@, MaxAdverts)]

\* the peripheral accepts the connection
Accept(dev) == ConnectSucceeds(dev) /\ UNCHANGED seen

AcceptCounted(dev) ==
    /\ ConnectSucceeds(dev)
    /\ seen' = [seen EXCEPT !.fails[dev] = 0, !.cycles[dev] = Count(@, MaxCycles)]

\* the connect attempt times out or fails
Refuse(dev) == ConnectFails(dev) /\ UNCHANGED seen

RefuseCounted(dev) ==
    /\ ConnectFails(dev)
    /\ seen' = [seen EXCEPT !.fails[dev] = Count(@, MaxFails)]

-----------------------------------------------------------------------------
(* The specifications *)

Init ==
    /\ sys_argv \in CommandLines
    /\ tasks = << >>
    /\ order = << >>
    /\ task_stop_events = << >>
    /\ spawned = [d \in Devices |-> 0]
    /\ stop_event = FALSE
    /\ last_stop_time = 0
    /\ main = [pc |-> "wait", stop_time |-> 0, it |-> 0, used |-> 0, printed |-> FALSE]
    /\ sigints = 0
    /\ statistics = << >>
    /\ seen = [adverts |-> [d \in Advertisers |-> 0],
               fails |-> [d \in Devices |-> 0],
               cycles |-> [d \in Devices |-> 0],
               match |-> [service_name |-> None, characteristic_name |-> None,
                          characteristic_type |-> None, result |-> FALSE],
               payloads |-> [d \in Devices |-> [n \in Measurements |-> 0]],
               faults |-> [d \in Devices |-> [n \in Measurements |-> 0]],
               dispatch |-> [device_name |-> None, measurement_name |-> None,
                             claimers |-> {}, raisers |-> {}, invoked |-> {},
                             raised |-> FALSE],
               write |-> [device_name |-> None, set |-> FALSE, issued |-> FALSE,
                          result |-> None]]

\* the command lines that start at most one supervisor
InitOne == Init /\ Len(sys_argv) <= 2

\* device_task between the connect attempts, and its end
Lifecycle(dev) ==
    \/ TaskStart(dev)
    \/ ReadReturns(dev)
    \/ ReadFails(dev)
    \/ NotifyReturns(dev)
    \/ NotifyFails(dev)
    \/ BackoffEnds(dev)
    \/ StartReturns(dev)
    \/ StartRaises(dev)
    \/ StopWaitReturns(dev)
    \/ DisconnectReturns(dev)
    \/ DisconnectRaises(dev)
    \/ FinalDisconnectReturns(dev)
    \/ FinalDisconnectRaises(dev)

Coordinator ==
    \/ MainWakes
    \/ MainTaskDone
    \/ MainGathered
    \/ MainErrorSleepEnds
    \/ RunCleanup

\* main when a single name can match: the dict of Tasks cannot grow while main
\* loops over it
CoordinatorOne ==
    \/ MainWakes
    \/ MainTaskDone
    \/ MainGathered
    \/ RunCleanup

\* the whole program
Next ==
    \/ \E dev \in Devices : Lifecycle(dev)
    \/ \E dev \in Devices : Accept(dev)
    \/ \E dev \in Devices : Refuse(dev)
    \/ \E dev \in Devices : CancelDelivered(dev)
    \/ \E dev \in Devices : disconnected_callback(dev)
    \/ \E dev \in Advertisers : Detect(dev)
    \/ Coordinator
    \/ sigint_handler

Spec == Init /\ [][Next]_vars

\* the whole program with a single name to match, the connect attempts counted
RetryNext ==
    \/ \E dev \in Devices : Lifecycle(dev)
    \/ \E dev \in Devices : AcceptCounted(dev)
    \/ \E dev \in Devices : RefuseCounted(dev)
    \/ \E dev \in Devices : CancelDelivered(dev)
    \/ \E dev \in Devices : disconnected_callback(dev)
    \/ \E dev \in Advertisers : Detect(dev)
    \/ CoordinatorOne
    \/ sigint_handler

RetrySpec == InitOne /\ [][RetryNext]_vars

\* the scanner and the supervisors while no interrupt comes, the advertisements
\* counted
ScanNext ==
    \/ \E dev \in Devices : Lifecycle(dev)
    \/ \E dev \in Devices : Accept(dev)
    \/ \E dev \in Devices : Refuse(dev)
    \/ \E dev \in Devices : disconnected_callback(dev)
    \/ \E dev \in Advertisers : Advertise(dev)

ScanSpec == Init /\ [][ScanNext]_vars

\* the scanner and the supervisor when a single name can match, the transport
\* delivering payloads that no decoder fails on
DispatchNext ==
    \/ \E dev \in Devices : Lifecycle(dev)
    \/ \E dev \in Devices : Accept(dev)
    \/ \E dev \in Devices : Refuse(dev)
    \/ \E dev \in Devices : disconnected_callback(dev)
    \/ \E dev \in Advertisers : Detect(dev)
    \/ \E dev \in Devices : Deliver(dev)

DispatchSpec == InitOne /\ [][DispatchNext]_vars

\* the same with payloads that a decoder fails on
FaultNext ==
    \/ DispatchNext
    \/ \E dev \in Devices : DeliverFaulty(dev)

FaultSpec == InitOne /\ [][FaultNext]_vars

\* the scanner and the supervisors while no interrupt comes, the decoders
\* writing to the peripheral when started
ClientNext ==
    \/ \E dev \in Devices : Lifecycle(dev)
    \/ \E dev \in Devices : Accept(dev)
    \/ \E dev \in Devices : Refuse(dev)
    \/ \E dev \in Devices : disconnected_callback(dev)
    \/ \E dev \in Advertisers : Detect(dev)
    \/ \E dev \in Devices : StartWrites(dev)
    \/ \E dev \in Devices : WriteReturns(dev)
    \/ \E dev \in Devices : WriteFails(dev)
    \/ \E dev \in Devices : WriteBackoffEnds(dev)

ClientSpec == Init /\ [][ClientNext]_vars

\* the scanner and the supervisors while no interrupt comes and every connect
\* attempt succeeds, the transport delivering payloads of all the connections
\* in any order
InterleaveNext ==
    \/ \E dev \in Devices : Lifecycle(dev)
    \/ \E dev \in Devices : Accept(dev)
    \/ \E dev \in Devices : disconnected_callback(dev)
    \/ \E dev \in Advertisers : Detect(dev)
    \/ \E dev \in Devices : DeliverClaimed(dev)

InterleaveSpec == Init /\ [][InterleaveNext]_vars

\* the capability matcher asked about every service, name and category
MatchNext ==
    \E service_name \in ServiceNames, characteristic_name \in CharacteristicNames,
       characteristic_type \in CharacteristicTypes :
        Match(service_name, characteristic_name, characteristic_type)

MatchSpec == Init /\ [][MatchNext]_vars

\* the event loop runs every Task that can run, and the transport answers every
\* call; advertisements, lost links and interrupts come or not
Fairness ==
    /\ \A dev \in Devices :
          /\ WF_vars(Lifecycle(dev))
          /\ WF_vars(Accept(dev))
          /\ WF_vars(CancelDelivered(dev))
    /\ WF_vars(Coordinator)

\* the whole program with a single name to match
OneNext ==
    \/ \E dev \in Devices : Lifecycle(dev)
    \/ \E dev \in Devices : Accept(dev)
    \/ \E dev \in Devices : Refuse(dev)
    \/ \E dev \in Devices : CancelDelivered(dev)
    \/ \E dev \in Devices : disconnected_callback(dev)
    \/ \E dev \in Advertisers : Detect(dev)
    \/ CoordinatorOne
    \/ sigint_handler

FairSpec == InitOne /\ [][OneNext]_vars /\ Fairness

\* the whole program with a single name to match, the transport delivering
\* payloads
SummaryNext ==
    \/ OneNext
    \/ \E dev \in Devices : DeliverClaimed(dev)

SummarySpec == InitOne /\ [][SummaryNext]_vars

-----------------------------------------------------------------------------
(* The scanner's claims, under ScanSpec *)

\* C1: at most one supervisor task is ever created for a device name, and an
\* advertisement whose name is already a key of the task registry changes
\* neither the registry nor the stop signals.
C1_OneTaskPerName ==
    /\ [](\A d \in Devices : spawned[d] <= 1)
    /\ [][\A d \in DOMAIN tasks :
            Advertise(d) => UNCHANGED <<tasks, order, task_stop_events, spawned>>]_vars

\* a registered name was advertised again and still has its one task
C1_Witness ==
    \E d \in Devices :
        /\ d \in DOMAIN tasks
        /\ seen.adverts[d] >= 2
        /\ spawned[d] = 1
        /\ tasks[d].pc # "new"

\* the pairs <<filter, name>> where the filter is part of the name when case is
\* ignored, written out by hand
FilterHits ==
    { <<"polar", "PolarH10">>, <<"POLAR", "PolarH10">>, <<"moxy", "MoxySensor">> }

\* C2: an advertisement registers its name and spawns a supervisor if and only
\* if the name is present, not yet registered, and contains one of the filter
\* arguments when case is ignored; with the filter list ["polar"], "PolarH10"
\* gets its one supervisor and "MoxySensor" is never registered.
C2_RegistersIffWanted ==
    /\ [][\A d \in Advertisers :
            Advertise(d) =>
               ( (d \notin DOMAIN tasks /\ d \in DOMAIN tasks'
                    /\ d \in DOMAIN task_stop_events' /\ spawned'[d] = spawned[d] + 1)
                 <=> (/\ d # None
                      /\ d \notin DOMAIN tasks
                      /\ \E i \in DOMAIN argv : <<argv[i], d>> \in FilterHits) )]_vars
    /\ [](sys_argv = <<"bleexplore.py", "polar">> =>
            /\ "MoxySensor" \notin DOMAIN tasks
            /\ spawned["MoxySensor"] = 0
            /\ seen.adverts["PolarH10"] >= 1 =>
                  ("PolarH10" \in DOMAIN tasks /\ spawned["PolarH10"] = 1))

\* both peripherals advertised under the filter list ["polar"]
C2_Witness ==
    /\ sys_argv = <<"bleexplore.py", "polar">>
    /\ seen.adverts["PolarH10"] >= 1
    /\ seen.adverts["MoxySensor"] >= 1
    /\ DOMAIN tasks = {"PolarH10"}
    /\ spawned["PolarH10"] = 1

\* C3: started without positional arguments, the scanner filters by the built-in
\* name 'Polar', so an advertised name that contains it gets a supervisor.
C3_DefaultFilter ==
    \A d \in Devices :
        ( /\ Len(sys_argv) = 1
          /\ IsSubstring(Lower(Chars(name)), Lower(Chars(d)))
          /\ seen.adverts[d] >= 1 )
        => d \in DOMAIN tasks

-----------------------------------------------------------------------------
(* The supervisor's claims *)

\* the awaits of device_explore
Exploring == {"read", "notify", "backoff", "starting", "running"}

\* C4: whatever the number N of connect attempts that failed in a row, the
\* supervisor is waiting in attempt N + 1 with a fresh client and its stop signal
\* cleared; a failed attempt never ends the task, only a cancellation does.
C4_RetryWithoutCap ==
    /\ [](\A d \in DOMAIN tasks :
            seen.fails[d] >= 1 =>
               \/ tasks[d].pc = "connecting" /\ tasks[d].result = "pending"
               \/ tasks[d].handler = "CancelledError")
    /\ [][\A d \in DOMAIN tasks :
            RefuseCounted(d) =>
               /\ tasks'[d].pc = "connecting"
               /\ tasks'[d].client
               /\ tasks'[d].handler = "none"
               /\ tasks'[d].result = "pending"
               /\ ~task_stop_events'[d]]_vars

\* two attempts failed in a row and the third is under way
C4_Witness ==
    \E d \in DOMAIN tasks :
        /\ seen.fails[d] >= 2
        /\ tasks[d].pc = "connecting"
        /\ ~tasks[d].must_cancel

\* C5: when the wait for the stop signal at the end of device_explore returns,
\* the supervisor goes to the disconnect call if the transport reports connected,
\* which is the one disconnect call of the loop for that connection, and goes
\* straight to the next connect attempt, without a disconnect call, if not.
C5_StopLeadsToOneDisconnect ==
    /\ [](\A d \in DOMAIN tasks :
            /\ tasks[d].cycle_disconnects <= 1
            /\ tasks[d].pc = "disconnecting" => tasks[d].cycle_disconnects = 1)
    /\ [][\A d \in DOMAIN tasks :
            StopWaitReturns(d) =>
               IF tasks[d].connected
               THEN /\ tasks'[d].pc = "disconnecting"
                    /\ tasks[d].cycle_disconnects = 0
                    /\ tasks'[d].cycle_disconnects = 1
               ELSE /\ tasks'[d].pc = "connecting"
                    /\ tasks'[d].cycle_disconnects = 0]_vars

\* the stop signal ended the wait and the loop's disconnect call is under way
C5_Witness ==
    \E d \in DOMAIN tasks :
        /\ tasks[d].pc = "disconnecting"
        /\ tasks[d].connected
        /\ task_stop_events[d]
        /\ tasks[d].cycle_disconnects = 1
        /\ tasks[d].handler = "none"

\* C6: a supervisor that is not being cancelled leaves the exploration only for
\* the loop's disconnect call or for a new connect attempt, and leaves the
\* disconnect call that returned for a new connect attempt; it enters that
\* attempt with its stop signal cleared.  A task is in its finalization or done
\* only after a cancellation or after the loop's disconnect call raised.
C6_ReconnectsUntilCancelled ==
    /\ [](\A d \in DOMAIN tasks :
            tasks[d].pc \in {"final_disconnect", "done"} =>
               \/ tasks[d].handler = "CancelledError"
               \/ tasks[d].handler = "Exception" /\ tasks[d].interrupted = "disconnecting"
               \/ tasks[d].interrupted = "new" /\ tasks[d].result = "cancelled")
    /\ [][\A d \in DOMAIN tasks :
            /\ (tasks[d].pc \in Exploring /\ ~tasks[d].must_cancel) =>
                  tasks'[d].pc \in Exploring \cup {"disconnecting", "connecting"}
            /\ DisconnectReturns(d) => tasks'[d].pc = "connecting"
            /\ (tasks[d].pc \in Exploring \cup {"disconnecting"}
                  /\ tasks'[d].pc = "connecting") =>
                  (~task_stop_events'[d] /\ tasks'[d].client /\ ~tasks'[d].connected)]_vars

\* a connection was made, explored and disconnected, and the next connect
\* attempt is under way
C6_Witness ==
    \E d \in DOMAIN tasks :
        /\ tasks[d].pc = "connecting"
        /\ tasks[d].cycle_disconnects = 1
        /\ tasks[d].handler = "none"
        /\ ~task_stop_events[d]

\* C7: a cancellation that reaches a supervisor in a connect attempt, in the
\* exploration, in the wait for the stop signal or in the loop's disconnect call
\* takes it to the disconnect call of the finally block; no started task is done
\* before that call was made; and when that call raises, the task still ends.
C7_CancelRunsFinalization ==
    /\ [](\A d \in DOMAIN tasks :
            (tasks[d].pc = "done" /\ tasks[d].interrupted # "new") =>
               tasks[d].final_disconnects >= 1)
    /\ [][\A d \in DOMAIN tasks :
            /\ (CancelDelivered(d)
                  /\ tasks[d].pc \in {"connecting", "disconnecting"} \cup Exploring) =>
                  /\ tasks'[d].pc = "final_disconnect"
                  /\ tasks'[d].final_disconnects = tasks[d].final_disconnects + 1
                  /\ tasks'[d].interrupted = tasks[d].pc
            /\ FinalDisconnectRaises(d) => tasks'[d].pc = "done"
            /\ FinalDisconnectReturns(d) => tasks'[d].pc = "done"]_vars

\* a supervisor was cancelled in its wait for the stop signal, the disconnect
\* call of the finally block raised, and the task is done
C7_Witness ==
    \E d \in DOMAIN tasks :
        /\ tasks[d].pc = "done"
        /\ tasks[d].handler = "CancelledError"
        /\ tasks[d].interrupted = "running"
        /\ tasks[d].final_disconnects = 1
        /\ tasks[d].connected

\* C8: a task whose loop body let an exception escape to `except Exception`
\* ends cancelled, and handle_task_result reports it as Cancelled.
C8_FatalEndsCancelled ==
    \A d \in DOMAIN tasks :
        (tasks[d].pc = "done" /\ tasks[d].handler = "Exception") =>
           (tasks[d].result = "cancelled" /\ tasks[d].reported = "Cancelled")

-----------------------------------------------------------------------------
(* The shutdown coordinator's claims *)

\* every registered supervisor has its stop signal set
AllSignalled == \A d \in DOMAIN task_stop_events : task_stop_events[d]

\* every registered supervisor's task is done
AllStopped == \A d \in DOMAIN tasks : tasks[d].pc = "done"

C9_ShutDownWitness ==
    /\ sigints = 2
    /\ main.printed
    /\ DOMAIN tasks # {}
    /\ AllStopped

\* C10 as stated: an interrupt handled within 4 time units of the one before
\* sets the stop signals again and cancels no task.
C10_SecondWithinWindowRepeats ==
    [][(MainWakes /\ last_stop_time # 0 /\ main'.stop_time - last_stop_time <= 4) =>
         /\ main'.pc = "wait"
         /\ AllSignalled'
         /\ \A d \in DOMAIN tasks : ~tasks'[d].must_cancel]_vars

\* C10: an interrupt handled within 4 time units of the one before makes main
\* leave its loop and cancel the supervisors' tasks, setting no stop signal; an
\* interrupt handled more than 4 time units after the one before (as the first
\* one is) sets the stop signals again, cancels no task, and main goes on
\* waiting.
C10_SecondWithinWindowEscalates ==
    [][MainWakes =>
         IF main'.stop_time - last_stop_time <= 4
         THEN /\ main'.pc # "wait"
              /\ task_stop_events' = task_stop_events
              /\ last_stop_time' = last_stop_time
              /\ main'.pc = "await_task" => tasks'[order[main'.it]].must_cancel
         ELSE /\ main'.pc = "wait"
              /\ AllSignalled'
              /\ tasks' = tasks
              /\ last_stop_time' = main'.stop_time]_vars

\* the second interrupt was handled exactly 4 time units after the first, and a
\* supervisor's task is being cancelled
C10_Witness ==
    /\ last_stop_time # 0
    /\ main.stop_time - last_stop_time = 4
    /\ main.pc = "await_task"
    /\ tasks[order[main.it]].must_cancel

-----------------------------------------------------------------------------
(* The capability matcher's claims, under MatchSpec *)

\* C11: asked for the category read or notify, the capability matcher answers
\* false when the service is no key of the support table, when its entry is
\* None, when the category is no key of the entry, and when the name is not in
\* the category's list; it answers true exactly when the name, as it stands, is
\* in that list.
C11_MatcherExact ==
    LET q == seen.match
        s == q.service_name
        c == q.characteristic_type
    IN  c \in {"read", "notify"} =>
           /\ s \notin SupportedServices => ~q.result
           /\ s = "Current Time Service" => ~q.result
           /\ (s \in SupportedServices /\ s # "Current Time Service"
                 /\ c \notin DOMAIN supported_characteristics(s)) => ~q.result
           /\ q.result <=>
                 /\ s \in SupportedServices
                 /\ s # "Current Time Service"
                 /\ c \in DOMAIN supported_characteristics(s)
                 /\ \E i \in DOMAIN supported_characteristics(s)[c] :
                       supported_characteristics(s)[c][i] = q.characteristic_name
           /\ (s = "Heart Rate" /\ c = "notify") =>
                 (q.result <=> q.characteristic_name = "Heart Rate Measurement")
           /\ (s = "Heart Rate" /\ c = "read") =>
                 (q.result <=> q.characteristic_name = "Heart Rate Control Point")
           /\ (s = "Polar Measurement Data Service" /\ c = "read") => ~q.result

\* the matcher said yes to a notification of the Heart Rate service
C11_Witness ==
    /\ seen.match.service_name = "Heart Rate"
    /\ seen.match.characteristic_name = "Heart Rate Measurement"
    /\ seen.match.characteristic_type = "notify"
    /\ seen.match.result

-----------------------------------------------------------------------------
(* The notification dispatcher's claims *)

\* C13: while no decoder raises, the statistics counter of a device and
\* characteristic equals the number of payloads delivered of it, and each
\* delivery raises it by one whether no, one or several decoders claim the
\* payload.
C13_OneCountPerPayload ==
    /\ [](\A d \in Devices : \A n \in Measurements :
            counter(d, n) = seen.payloads[d][n])
    /\ [][\A d \in Devices : \A n \in Measurements :
            (Deliver(d) /\ seen'.dispatch.measurement_name = n) =>
               /\ counter(d, n)' = counter(d, n) + 1
               /\ seen'.dispatch.invoked = seen'.dispatch.claimers
               /\ \A o \in Measurements \ {n} : counter(d, o)' = counter(d, o)]_vars

\* three payloads were delivered, the last one claimed by several decoders
C13_Witness ==
    \E d \in Devices : \E n \in Measurements :
        /\ seen.payloads[d][n] = 3
        /\ counter(d, n) = 3
        /\ seen.dispatch.device_name = d
        /\ seen.dispatch.measurement_name = n
        /\ Cardinality(seen.dispatch.claimers) >= 2

\* C14: a payload that a decoder's notification handler raises on is counted
\* all the same: the counter is raised by one at its dispatch.
C14_FaultStillCounted ==
    [][\A d \in Devices : \A n \in Measurements :
         (DeliverFaulty(d) /\ seen'.dispatch.measurement_name = n) =>
            counter(d, n)' = counter(d, n) + 1]_vars

\* C15: no exception of a decoder leaves MyClient.notification; the dispatch of
\* a payload a decoder fails on changes no supervisor and no stop signal, so the
\* connection stays up, and every payload that no decoder fails on is counted,
\* before and after such a payload.
C15_DispatchContainsFaults ==
    /\ [](~seen.dispatch.raised)
    /\ [](\A d \in Devices : \A n \in Measurements :
            counter(d, n) = seen.payloads[d][n] - seen.faults[d][n])
    /\ [][\A d \in Devices :
            DeliverFaulty(d) =>
               /\ tasks' = tasks
               /\ task_stop_events' = task_stop_events
               /\ main' = main]_vars

\* after a payload a decoder failed on, another payload was dispatched and
\* counted, the link still up
C15_Witness ==
    \E d \in DOMAIN tasks : \E n \in Measurements :
        /\ seen.faults[d][n] >= 1
        /\ seen.dispatch.device_name = d
        /\ seen.dispatch.measurement_name = n
        /\ seen.dispatch.raisers = {}
        /\ counter(d, n) >= 1
        /\ tasks[d].connected
        /\ tasks[d].pc = "running"

\* C16: every decoder that claims a payload has its notification handler
\* called for it, also when the handler of another one raises.
C16_EveryClaimerInvoked ==
    seen.dispatch.invoked = seen.dispatch.claimers

-----------------------------------------------------------------------------
(* The exploration's claims *)

\* the calls of kind made for the characteristic name of service
CallsOf(d, kind, service, characteristic) ==
    Cardinality({i \in DOMAIN tasks[d].calls :
                    /\ tasks[d].calls[i].kind = kind
                    /\ tasks[d].calls[i].service = service
                    /\ tasks[d].calls[i].name = characteristic})

\* C17: once the reads and subscriptions of an exploration are through, each
\* readable characteristic the matcher accepts for read was read once, each
\* notifiable or indicatable one it accepts for notify was subscribed once, and
\* nothing else was called: for the Heart Rate service one read of Heart Rate
\* Control Point and one subscription of Heart Rate Measurement.  The payloads
\* then delivered are counted one by one, three of them giving 3.
C17_OneCallPerCharacteristic ==
    \A d \in DOMAIN tasks :
        /\ tasks[d].pc \in {"starting", "running"} =>
              /\ \A k \in DOMAIN Profile(d) :
                    \A j \in DOMAIN Profile(d)[k].characteristics :
                       LET sv == Profile(d)[k].service
                           c == Profile(d)[k].characteristics[j]
                       IN  /\ CallsOf(d, "read", sv, c.name) =
                                 IF "read" \in c.properties
                                      /\ supported_characteristic(sv, c.name, "read")
                                 THEN 1 ELSE 0
                           /\ CallsOf(d, "notify", sv, c.name) =
                                 IF ("notify" \in c.properties
                                        \/ "indicate" \in c.properties)
                                      /\ supported_characteristic(sv, c.name, "notify")
                                 THEN 1 ELSE 0
              /\ d = "PolarH10" =>
                    tasks[d].calls =
                       << [kind |-> "read", service |-> "Heart Rate",
                           name |-> "Heart Rate Control Point"],
                          [kind |-> "notify", service |-> "Heart Rate",
                           name |-> "Heart Rate Measurement"] >>
              /\ d = "PolarH10" => tasks[d].subscribed = {"Heart Rate Measurement"}
        /\ \A n \in Measurements : counter(d, n) = seen.payloads[d][n]

\* the Heart Rate service was explored with one read and one subscription, and
\* three payloads of Heart Rate Measurement were delivered
C17_Witness ==
    /\ "PolarH10" \in DOMAIN tasks
    /\ tasks["PolarH10"].pc = "running"
    /\ Len(tasks["PolarH10"].calls) = 2
    /\ seen.payloads["PolarH10"]["Heart Rate Measurement"] = 3
    /\ statistics = [PolarH10 |-> [n \in {"Heart Rate Measurement"} |-> 3]]

\* C18: no read and no subscription is ever made for a characteristic whose
\* service is no key of the support table (or has the entry None) or whose name
\* is not in the list of the call's category; passing over such characteristics
\* does not end the exploration: when the connection is made the exploration
\* goes on to its first supported characteristic.
C18_UnsupportedSkipped ==
    /\ [](\A d \in DOMAIN tasks : \A i \in DOMAIN tasks[d].calls :
            LET o == tasks[d].calls[i]
            IN  /\ o.service \in SupportedServices \ NoneServices
                /\ o.kind \in DOMAIN supported_characteristics(o.service)
                /\ InList(o.name, supported_characteristics(o.service)[o.kind])
                /\ o.service # "Generic Access"
                /\ o.name \notin {"Body Sensor Location", "Device Name",
                                  "Polar PMD Control Point", "COM_IN_UUID"}
                /\ (o.name = "Moxy SMO2 Data" => o.kind = "notify"))
    /\ [][\A d \in DOMAIN tasks :
            Accept(d) => /\ tasks'[d].pc \in {"read", "notify"}
                         /\ Len(tasks'[d].calls) = 1]_vars

\* the exploration passed over Body Sensor Location and Device Name and has
\* reached the wait for the stop signal
C18_Witness ==
    /\ "PolarH10" \in DOMAIN tasks
    /\ tasks["PolarH10"].pc = "running"
    /\ tasks["PolarH10"].connected
    /\ Len(tasks["PolarH10"].calls) = 2
    /\ ~task_stop_events["PolarH10"]

\* C19: when a read or a subscription fails, the exploration makes no further
\* read or subscription and calls no decoder's start; from the failure, and from
\* the sleep that follows some failures, the supervisor goes to the loop's
\* disconnect call (or, the link being down, straight to the next connect
\* attempt), never to the wait for the stop signal and never to its end.
C19_FailFast ==
    /\ [](\A d \in DOMAIN tasks :
            tasks[d].pc = "backoff" =>
               (tasks[d].started = << >> /\ tasks[d].calls # << >>))
    /\ [][\A d \in DOMAIN tasks :
            /\ (ReadFails(d) \/ NotifyFails(d)) =>
                  /\ tasks'[d].pc \in {"backoff", "disconnecting", "connecting"}
                  /\ tasks'[d].started = << >>
                  /\ tasks'[d].calls \in {tasks[d].calls, << >>}
                  /\ tasks'[d].subscribed \subseteq tasks[d].subscribed
            /\ BackoffEnds(d) =>
                  /\ tasks'[d].pc \in {"disconnecting", "connecting"}
                  /\ tasks[d].connected => tasks'[d].pc = "disconnecting"
                  /\ tasks'[d].started = << >>
                  /\ tasks'[d].calls = << >>
                  /\ tasks'[d].subscribed \subseteq tasks[d].subscribed
            /\ (DisconnectReturns(d) \/ (BackoffEnds(d) /\ ~tasks[d].connected)) =>
                  /\ tasks'[d].pc = "connecting"
                  /\ tasks'[d].result = "pending"]_vars

\* the first read failed with the subscription still to come, and the
\* supervisor sleeps before it leaves the exploration
C19_Witness ==
    /\ "PolarH10" \in DOMAIN tasks
    /\ tasks["PolarH10"].pc = "backoff"
    /\ Len(tasks["PolarH10"].calls) = 1
    /\ tasks["PolarH10"].calls[1].kind = "read"
    /\ tasks["PolarH10"].subscribed = {}
    /\ tasks["PolarH10"].connected

\* C20: in the wait for the stop signal, every decoder whose service_check
\* holds of the peripheral has had its start called once, whether or not the
\* start of a decoder before it raised.
C20_EveryDecoderStarted ==
    \A d \in DOMAIN tasks :
        tasks[d].pc = "running" =>
           \A dec \in Decoders :
              service_check(dec, d) =>
                 Cardinality({i \in DOMAIN tasks[d].started :
                                 tasks[d].started[i] = dec}) = 1

-----------------------------------------------------------------------------
(* The client's claims, under ClientSpec *)

\* C21: read_gatt_char, start_notify and write_gatt_char test the device's stop
\* signal first.  A call that finds it set makes no transport call and gives its
\* no-op answer: the exploration ends there without a further read or
\* subscription, and the write answers False with the supervisor where it was.
\* Every transport read, subscription and write begins with the signal clear.
C21_StopCheckedFirst ==
    [][\A d \in DOMAIN tasks :
         /\ (tasks'[d].calls # tasks[d].calls /\ tasks'[d].calls # << >>) =>
               /\ ~task_stop_events[d]
               /\ ~task_stop_events'[d]
               /\ tasks'[d].pc \in {"read", "notify"}
         /\ ((ReadReturns(d) \/ NotifyReturns(d))
               /\ task_stop_events[d]
               /\ tasks[d].op < Len(ExploreOps(d))) =>
               /\ tasks'[d].pc \in {"disconnecting", "connecting"}
               /\ tasks'[d].calls = << >>
         /\ (tasks'[d].pc = "write" /\ tasks[d].pc # "write") =>
               /\ ~task_stop_events[d]
               /\ ~task_stop_events'[d]
               /\ seen'.write.issued
         /\ (StartWrites(d) /\ task_stop_events[d]) =>
               /\ tasks'[d] = tasks[d]
               /\ ~seen'.write.issued
               /\ seen'.write.result = "False"]_vars

\* a decoder's write found the stop signal set and was answered False without a
\* transport call
C21_Witness ==
    \E d \in DOMAIN tasks :
        /\ tasks[d].pc = "starting"
        /\ task_stop_events[d]
        /\ seen.write.device_name = d
        /\ seen.write.set
        /\ ~seen.write.issued
        /\ seen.write.result = "False"

\* C22: a lost link, a failed connect attempt, a failed read, subscription or
\* write, and the end of a supervisor after the loop's disconnect call raised
\* leave every other supervisor as it was: its place in device_task, its stop
\* signal, its client and the state of its connection.
C22_SupervisorsIsolated ==
    [][\A a \in DOMAIN tasks :
         ( \/ disconnected_callback(a)
           \/ ConnectFails(a)
           \/ ReadFails(a)
           \/ NotifyFails(a)
           \/ WriteFails(a)
           \/ DisconnectRaises(a)
           \/ (tasks[a].handler = "Exception"
                 /\ (FinalDisconnectReturns(a) \/ FinalDisconnectRaises(a))) ) =>
            \A b \in DOMAIN tasks \ {a} :
               /\ tasks'[b] = tasks[b]
               /\ task_stop_events'[b] = task_stop_events[b]]_vars

\* one supervisor ended after its disconnect call raised, and the other one
\* waits for its stop signal with its connection up
C22_Witness ==
    \E a \in DOMAIN tasks : \E b \in DOMAIN tasks \ {a} :
        /\ tasks[a].pc = "done"
        /\ tasks[a].handler = "Exception"
        /\ tasks[b].pc = "running"
        /\ tasks[b].connected
        /\ ~task_stop_events[b]

\* C23: an advertisement of a name whose supervisor's task is done starts a new
\* supervisor for it: a task that has not run yet, with a stop signal of its
\* own that is clear.
C23_RestartAfterTermination ==
    [][\A d \in DOMAIN tasks :
         (Advertise(d) /\ tasks[d].pc = "done") =>
            /\ tasks'[d] = NewTask
            /\ ~task_stop_events'[d]
            /\ spawned'[d] = spawned[d] + 1]_vars

\* C24: while no task is cancelled, no supervisor leaves its loop: whatever
\* connect attempt, read, subscription, write or disconnect call of the loop
\* raises, the task is neither in its finalization nor done.
C24_TransportErrorsRecovered ==
    \A d \in DOMAIN tasks :
        /\ tasks[d].pc \notin {"final_disconnect", "done"}
        /\ tasks[d].result = "pending"

-----------------------------------------------------------------------------
(* The statistics' claims *)

\* C25: with the payloads of two supervisors' connections dispatched in any
\* order, and of one supervisor's successive connections, every counter equals
\* the number of payloads dispatched of its device and characteristic; a
\* dispatch changes the counter of its own pair only.
C25_NoLostIncrement ==
    /\ [](\A d \in Devices : \A n \in Measurements :
            counter(d, n) = seen.payloads[d][n])
    /\ [][\A d \in Devices : \A n \in Measurements :
            (DeliverClaimed(d) /\ seen'.dispatch.measurement_name = n) =>
               \A o \in Devices : \A m \in Measurements :
                  counter(o, m)' = IF o = d /\ m = n THEN counter(o, m) + 1
                                   ELSE counter(o, m)]_vars

\* two supervisors are connected at once and payloads of both were counted
C25_Witness ==
    /\ DOMAIN tasks = {"PolarH10", "MoxySensor"}
    /\ \A d \in DOMAIN tasks : tasks[d].pc = "running" /\ tasks[d].connected
    /\ counter("PolarH10", "Heart Rate Measurement") >= 2
    /\ counter("MoxySensor", "Moxy SMO2 Data") >= 2
    /\ seen.dispatch.device_name = "PolarH10"

-----------------------------------------------------------------------------
(* The order of a supervisor's steps, under ScanSpec *)

\* C26: a supervisor issues its reads and subscriptions only once its connect
\* attempt succeeded, and in the order of the exploration; it calls a decoder's
\* start only when every supported read and subscription of that connection
\* was issued and has returned; it begins to wait for its stop signal only when
\* the decoder loop is through (the last matching decoder's start returned, or a
\* start raised); and it begins a connect attempt only at its start, after a
\* failed attempt, after the loop's disconnect call returned, or from an
\* exploration whose link is already down.
C26_PhasesInOrder ==
    /\ [](\A d \in DOMAIN tasks :
            /\ tasks[d].pc \in {"new", "connecting"} =>
                  (tasks[d].calls = << >> /\ tasks[d].started = << >>)
            /\ tasks[d].calls = SubSeq(ExploreOps(d), 1, Len(tasks[d].calls))
            /\ tasks[d].pc \in {"read", "notify", "backoff"} =>
                  (tasks[d].started = << >> /\ tasks[d].op = Len(tasks[d].calls))
            /\ tasks[d].started # << >> =>
                  (tasks[d].pc \in {"starting", "running"}
                     /\ tasks[d].calls = ExploreOps(d))
            /\ tasks[d].pc = "running" => tasks[d].calls = ExploreOps(d))
    /\ [][\A d \in DOMAIN tasks :
            /\ (tasks'[d].op = 1 /\ tasks[d].op # 1) =>
                  (tasks[d].pc = "connecting" /\ tasks'[d].connected)
            /\ (tasks'[d].pc = "starting" /\ tasks[d].pc # "starting") =>
                  /\ tasks[d].pc \in {"connecting", "read", "notify"}
                  /\ tasks[d].op = Len(ExploreOps(d))
            /\ (tasks'[d].pc = "running" /\ tasks[d].pc # "running") =>
                  IF \E k \in DOMAIN supported_devices :
                        service_check(supported_devices[k], d)
                  THEN tasks[d].pc = "starting"
                  ELSE tasks[d].pc \in {"connecting", "read", "notify"}
            /\ (StartReturns(d) /\ tasks'[d].pc = "running") =>
                  \A k \in DOMAIN supported_devices :
                     service_check(supported_devices[k], d) =>
                        InList(supported_devices[k], tasks[d].started)
            /\ (tasks'[d].pc = "connecting" /\ tasks'[d] # tasks[d]) =>
                  \/ tasks[d].pc \in {"new", "connecting", "disconnecting"}
                  \/ tasks[d].pc \in Exploring /\ ~tasks[d].connected]_vars

\* a supervisor made its read and subscription, had the start of both matching
\* decoders called and waits for its stop signal
C26_Witness ==
    \E d \in DOMAIN tasks :
        /\ tasks[d].pc = "running"
        /\ tasks[d].connected
        /\ tasks[d].calls = ExploreOps(d)
        /\ Len(tasks[d].calls) >= 1
        /\ Len(tasks[d].started) = 2

\* C27: a supervisor that waits for its stop signal leaves the wait only with
\* the signal set, for the loop's disconnect call or (the link being down) the
\* next connect attempt, or by a cancellation, for the finally block.  While it
\* waits, its signal is set only by the lost link's callback or by main
\* handling an interrupt.
C27_RunningUntilStopped ==
    [][\A d \in DOMAIN tasks :
         /\ (tasks[d].pc = "running" /\ tasks'[d].pc # "running") =>
               \/ /\ task_stop_events[d]
                  /\ ~tasks[d].must_cancel
                  /\ tasks'[d].pc = IF tasks[d].connected THEN "disconnecting"
                                    ELSE "connecting"
               \/ /\ tasks[d].must_cancel
                  /\ tasks'[d].pc = "final_disconnect"
                  /\ tasks'[d].handler = "CancelledError"
         /\ (tasks[d].pc = "running" /\ ~task_stop_events[d]
               /\ task_stop_events'[d]) =>
               (disconnected_callback(d) \/ MainWakes)]_vars

\* main handled an interrupt while the supervisor waited, and the supervisor
\* left the wait for the loop's disconnect call
C27_Witness ==
    \E d \in DOMAIN tasks :
        /\ tasks[d].pc = "disconnecting"
        /\ tasks[d].connected
        /\ task_stop_events[d]
        /\ last_stop_time # 0
        /\ main.pc = "wait"
        /\ tasks[d].handler = "none"

\* C28: no step lowers a counter of the statistics or takes an entry away; a
\* supervisor's disconnect calls and connect attempts leave the statistics as
\* they are, so that at any time, and when main prints them, each counter is
\* the number of payloads dispatched over all the connections of its device.
C28_CountersOnlyGrow ==
    /\ [][/\ DOMAIN statistics \subseteq DOMAIN statistics'
          /\ \A d \in DOMAIN statistics :
                DOMAIN statistics[d] \subseteq DOMAIN statistics'[d]
          /\ \A d \in Devices : \A n \in Measurements :
                counter(d, n)' >= counter(d, n)
          /\ (\E d \in DOMAIN tasks : tasks'[d].pc # tasks[d].pc) =>
                statistics' = statistics
          /\ main' # main => statistics' = statistics]_vars
    /\ [](\A d \in Devices : \A n \in Measurements :
            counter(d, n) = seen.payloads[d][n])

\* payloads were counted in a connection, the supervisor has disconnected and
\* is in its next connect attempt, and the counter stands
C28_Witness ==
    \E d \in DOMAIN tasks : \E n \in Measurements :
        /\ tasks[d].pc = "connecting"
        /\ tasks[d].cycle_disconnects = 1
        /\ tasks[d].subscribed = {}
        /\ counter(d, n) >= 2

\* the statistics were printed with a counter of three payloads
C28_SummaryWitness ==
    /\ main.printed
    /\ \E d \in DOMAIN tasks : \E n \in Measurements : counter(d, n) = 3

-----------------------------------------------------------------------------
(* The shutdown's claims *)

\* C29: main, having left its interrupt loop, does not end without printing
\* the statistics, whether or not a supervisor is registered while it cancels
\* and awaits the tasks.
C29_SummaryAlwaysPrinted ==
    main.pc \in {"error_sleep", "failed", "closing"} => main.printed

\* C30: a stop signal that main set while the supervisor awaited a connect
\* attempt (nothing else sets it there) is still set when that attempt has
\* failed and the next one is under way.
C30_StopRequestKept ==
    [][\A d \in DOMAIN tasks :
         (ConnectFails(d) /\ task_stop_events[d]) =>
            (tasks'[d].pc = "connecting" /\ task_stop_events'[d])]_vars

-----------------------------------------------------------------------------
(* polartest.py: main, its scanner callback and device_explore.  The frame *)
(* of a device_explore Task keeps the await it is suspended at (pc), its   *)
(* place in the run of calls under way (op), pmd_available, every call     *)
(* made on the client so far (calls), and the exception that is leaving    *)
(* the `async with` block (exc).  The payload callbacks are left out.      *)

\* sys.argv of polartest.py
PolarTestCommandLines == { <<"polartest.py">>, <<"polartest.py", "polar">> }

\* name = 'Polar' if len(sys.argv) == 1 else sys.argv[1]; main(name)
wanted_name == IF Len(sys_argv) = 1 THEN "Polar" ELSE sys_argv[2]

\* dev.name of the peripherals that advertise
PolarAdvertisers == {"PolarH10", "PolarSense", "MoxySensor"}

\* FeaturesFields, the entries device_explore asks about: <<bit, name>>
FeaturesFields == << <<1, "ECG">>, <<2, "PPG">>, <<4, "ACC">>, <<8, "PPI">> >>

\* response[1] of the read of POLAR_PMD_CP: ECG and ACC; PPG, ACC and PPI; GYRO
PmdFeatures == {5, 14, 32}

\* pmd_available = [ n for b, n in FeaturesFields if pmd_features & b]
pmd_available(pmd_features) ==
    {FeaturesFields[i][2] : i \in {k \in DOMAIN FeaturesFields :
                                      (pmd_features \div FeaturesFields[k][1]) % 2 = 1}}

\* the order of the `if ... in pmd_available` statements
MeasurementOrder == <<"ACC", "ECG", "PPG", "PPI">>

\* the writes of lines 268-289: settings request and start, type by type
StartCommands(available) ==
    LET types == SelectSeq(MeasurementOrder, LAMBDA m : m \in available)
    IN  [i \in 1..(2 * Len(types)) |->
            [kind |-> "write",
             what |-> IF i % 2 = 1 THEN "settings" ELSE "start",
             of |-> types[(i + 1) \div 2]]]

\* the writes of lines 299-306: a stop command for every type available
StopCommands(available) ==
    LET types == SelectSeq(MeasurementOrder, LAMBDA m : m \in available)
    IN  [i \in 1..Len(types) |-> [kind |-> "write", what |-> "stop", of |-> types[i]]]

\* the characteristics of the start_notify calls, and of the stop_notify calls
StartNotifications == <<"POLAR_PFC_CP", "POLAR_PMD_CP", "POLAR_PMD_DATA">>
StopNotifications == <<"POLAR_PMD_DATA", "POLAR_PMD_CP", "POLAR_PFC_CP">>

\* asyncio.create_task(device_explore(dev, stop_event)): a Task that has not run
PolarTask ==
    [pc |-> "new", op |-> 0, available |-> {}, calls |-> << >>, exc |-> "none",
     result |-> "pending"]

\* the `async with BleakClient(device)` block is left, by its end, a return or
\* the exception exc: __aexit__ awaits the client's disconnect
client_exit(t, exc) ==
    [t EXCEPT !.pc = "closing", !.op = 0, !.exc = exc,
              !.calls = Append(@, [kind |-> "disconnect", what |-> "", of |-> ""])]

\* the stop_notify calls from the i-th on
stop_notify_from(t, i) ==
    IF i > Len(StopNotifications) THEN client_exit(t, "none")
    ELSE [t EXCEPT !.pc = "stop_notify", !.op = i,
                   !.calls = Append(@, [kind |-> "stop_notify", what |-> "",
                                        of |-> StopNotifications[i]])]

\* the stop writes from the i-th on, then the stop_notify calls
stop_writes_from(t, i) ==
    IF i > Len(StopCommands(t.available)) THEN stop_notify_from(t, 1)
    ELSE [t EXCEPT !.pc = "write_stop", !.op = i,
                   !.calls = Append(@, StopCommands(t.available)[i])]

\* `await stop_event.wait()`, which returns at once when the event is set
stop_event_wait(t, e) ==
    IF e THEN stop_writes_from(t, 1)
    ELSE [t EXCEPT !.pc = "waiting", !.op = 0]

\* the start writes from the i-th on, then the wait
start_writes_from(t, e, i) ==
    IF i > Len(StartCommands(t.available)) THEN stop_event_wait(t, e)
    ELSE [t EXCEPT !.pc = "write_start", !.op = i,
                   !.calls = Append(@, StartCommands(t.available)[i])]

\* the start_notify calls from the i-th on, then the start writes
start_notify_from(t, e, i) ==
    IF i > Len(StartNotifications) THEN start_writes_from(t, e, 1)
    ELSE [t EXCEPT !.pc = "start_notify", !.op = i,
                   !.calls = Append(@, [kind |-> "start_notify", what |-> "",
                                        of |-> StartNotifications[i]])]

\* device_explore ends, and its client with it: TimeoutError is caught by its
\* except clause, any other exception leaves it, and a cancellation ends the
\* Task cancelled
task_done(t) ==
    [t EXCEPT !.pc = "done", !.op = 0, !.available = {}, !.calls = << >>,
              !.result = CASE t.exc \in {"none", "TimeoutError"} -> "None"
                           [] t.exc = "CancelledError" -> "cancelled"
                           [] OTHER -> "raised"]

\* Task.cancel() on a Task that is not done: CancelledError at its await.  In
\* the `async with` block it runs __aexit__; before and in __aenter__ and in
\* __aexit__ it ends the Task
cancelled(t) ==
    IF t.pc = "done" THEN t
    ELSE IF t.pc \in {"new", "connecting", "closing"}
    THEN task_done([t EXCEPT !.exc = "CancelledError"])
    ELSE client_exit(t, "CancelledError")

\* what polartest.py has no such state for
PolarUnused ==
    UNCHANGED <<sys_argv, order, task_stop_events, spawned, last_stop_time, sigints,
                statistics, seen>>

\* a step of the Task of dev
PolarStep(dev, t) ==
    /\ tasks' = [tasks EXCEPT ![dev] = t]
    /\ UNCHANGED <<stop_event, main>>
    /\ PolarUnused

PolarAt(dev, at) == dev \in DOMAIN tasks /\ tasks[dev].pc = at

\* the Task's first step: BleakClient.__aenter__ awaits the connection
PolarTaskStart(dev) ==
    /\ PolarAt(dev, "new")
    /\ PolarStep(dev, [tasks[dev] EXCEPT
                         !.pc = "connecting",
                         !.calls = Append(@, [kind |-> "connect", what |-> "",
                                              of |-> ""])])

\* the connection is made (Linux: the name is taken from the properties), and
\* POLAR_PFC_FEATURE is read
ClientConnected(dev) ==
    /\ PolarAt(dev, "connecting")
    /\ PolarStep(dev, [tasks[dev] EXCEPT
                         !.pc = "read_pfc",
                         !.calls = Append(@, [kind |-> "read", what |-> "",
                                              of |-> "POLAR_PFC_FEATURE"])])

\* the connection attempt raises: the block is never entered
ClientConnectRaises(dev) ==
    /\ PolarAt(dev, "connecting")
    /\ \E exc \in {"TimeoutError", "BleakError"} :
          PolarStep(dev, task_done([tasks[dev] EXCEPT !.exc = exc]))

\* the read of POLAR_PFC_FEATURE returns: a response that is not valid makes
\* device_explore return, a valid one is followed by the read of POLAR_PMD_CP
PfcFeatureRead(dev) ==
    /\ PolarAt(dev, "read_pfc")
    /\ \E valid \in BOOLEAN :
          IF valid
          THEN PolarStep(dev, [tasks[dev] EXCEPT
                                 !.pc = "read_pmd",
                                 !.calls = Append(@, [kind |-> "read", what |-> "",
                                                      of |-> "POLAR_PMD_CP"])])
          ELSE PolarStep(dev, client_exit(tasks[dev], "none"))

\* the read of POLAR_PMD_CP returns the features, and the notifications are
\* started
PmdFeaturesRead(dev) ==
    /\ PolarAt(dev, "read_pmd")
    /\ \E pmd_features \in PmdFeatures :
          PolarStep(dev, start_notify_from(
                            [tasks[dev] EXCEPT !.available =
                                                  pmd_available(pmd_features)],
                            stop_event, 1))

\* a start_notify call returns
NotifyStarted(dev) ==
    /\ PolarAt(dev, "start_notify")
    /\ PolarStep(dev, start_notify_from(tasks[dev], stop_event, tasks[dev].op + 1))

\* client.write_gatt_char returns, in a start write or in a stop write
CommandWritten(dev) ==
    \/ /\ PolarAt(dev, "write_start")
       /\ PolarStep(dev, start_writes_from(tasks[dev], stop_event, tasks[dev].op + 1))
    \/ /\ PolarAt(dev, "write_stop")
       /\ PolarStep(dev, stop_writes_from(tasks[dev], tasks[dev].op + 1))

\* a call on the client raises.  write_gatt_char catches EOFError and
\* BleakError and device_explore goes on; the try statements around the
\* start_notify and the stop_notify calls catch BleakError, the first with a
\* return; every other exception leaves the block
CallRaises(dev) ==
    /\ dev \in DOMAIN tasks
    /\ \E exc \in {"EOFError", "BleakError", "TimeoutError"} :
          LET t == tasks[dev]
          IN  CASE t.pc \in {"read_pfc", "read_pmd"} ->
                     PolarStep(dev, client_exit(t, exc))
                [] t.pc \in {"start_notify", "stop_notify"} ->
                     PolarStep(dev, client_exit(t, IF exc = "BleakError" THEN "none"
                                                   ELSE exc))
                [] t.pc = "write_start" ->
                     IF exc = "TimeoutError" THEN PolarStep(dev, client_exit(t, exc))
                     ELSE PolarStep(dev, start_writes_from(t, stop_event, t.op + 1))
                [] t.pc = "write_stop" ->
                     IF exc = "TimeoutError" THEN PolarStep(dev, client_exit(t, exc))
                     ELSE PolarStep(dev, stop_writes_from(t, t.op + 1))
                [] OTHER -> FALSE

\* stop_event.wait() returns
StopEventWaitReturns(dev) ==
    /\ PolarAt(dev, "waiting")
    /\ stop_event
    /\ PolarStep(dev, stop_writes_from(tasks[dev], 1))

\* a stop_notify call returns
NotifyStopped(dev) ==
    /\ PolarAt(dev, "stop_notify")
    /\ PolarStep(dev, stop_notify_from(tasks[dev], tasks[dev].op + 1))

\* __aexit__ is through: device_explore ends
ClientClosed(dev) ==
    /\ PolarAt(dev, "closing")
    /\ PolarStep(dev, task_done(tasks[dev]))

\* main.callback: the scanner's detection callback
callback(dev) ==
    /\ main.pc \in {"wait", "gather"}
    /\ IF IsSubstring(Lower(Chars(wanted_name)), Lower(Chars(dev)))
          /\ dev \notin DOMAIN tasks
       THEN tasks' = SetItem(tasks, dev, PolarTask)
       ELSE UNCHANGED tasks
    /\ UNCHANGED <<stop_event, main>>
    /\ PolarUnused

\* main.sigint_handler
polartest_sigint_handler ==
    /\ main.pc # "exited"
    /\ stop_event' = TRUE
    /\ UNCHANGED <<tasks, main>>
    /\ PolarUnused

\* exit(): SystemExit ends main, and asyncio.run cancels the Tasks not done
PolarExit(m) ==
    /\ main' = [m EXCEPT !.pc = "exited"]
    /\ tasks' = [d \in DOMAIN tasks |-> cancelled(tasks[d])]
    /\ UNCHANGED stop_event
    /\ PolarUnused

\* main: stop_event.wait() returns and asyncio.gather is called with the Tasks
\* that tasks holds at this moment.  With no Task the await of gather does not
\* suspend: the scanner is left and the statistics are printed at once
PolarMainGathers ==
    /\ main.pc = "wait"
    /\ stop_event
    /\ IF DOMAIN tasks = {}
       THEN PolarExit([main EXCEPT !.printed = TRUE])
       ELSE /\ main' = [main EXCEPT !.pc = "gather", !.gathered = DOMAIN tasks]
            /\ UNCHANGED <<tasks, stop_event>>
            /\ PolarUnused

\* main: every Task given to asyncio.gather is done and none has raised; the
\* scanner is left, the statistics are printed and exit() is called
PolarGatherReturns ==
    /\ main.pc = "gather"
    /\ \A d \in main.gathered : tasks[d].pc = "done" /\ tasks[d].result = "None"
    /\ PolarExit([main EXCEPT !.printed = TRUE])

\* main: a Task given to asyncio.gather has raised: gather raises, the scanner
\* is left and `except Exception` sleeps
PolarGatherRaises ==
    /\ main.pc = "gather"
    /\ \E d \in main.gathered : tasks[d].pc = "done" /\ tasks[d].result = "raised"
    /\ main' = [main EXCEPT !.pc = "error_sleep"]
    /\ UNCHANGED <<tasks, stop_event>>
    /\ PolarUnused

\* main: asyncio.sleep(2) ends and exit() is called
PolarErrorSleepEnds ==
    /\ main.pc = "error_sleep"
    /\ PolarExit(main)

PolarTestInit ==
    /\ sys_argv \in PolarTestCommandLines
    /\ tasks = << >>
    /\ order = << >>
    /\ task_stop_events = << >>
    /\ spawned = << >>
    /\ stop_event = FALSE
    /\ last_stop_time = 0
    /\ main = [pc |-> "wait", gathered |-> {}, printed |-> FALSE]
    /\ sigints = 0
    /\ statistics = << >>
    /\ seen = << >>

PolarTestNext ==
    \/ \E dev \in PolarAdvertisers : callback(dev)
    \/ \E dev \in PolarAdvertisers : PolarTaskStart(dev)
    \/ \E dev \in PolarAdvertisers : ClientConnected(dev)
    \/ \E dev \in PolarAdvertisers : ClientConnectRaises(dev)
    \/ \E dev \in PolarAdvertisers : PfcFeatureRead(dev)
    \/ \E dev \in PolarAdvertisers : PmdFeaturesRead(dev)
    \/ \E dev \in PolarAdvertisers : NotifyStarted(dev)
    \/ \E dev \in PolarAdvertisers : CommandWritten(dev)
    \/ \E dev \in PolarAdvertisers : CallRaises(dev)
    \/ \E dev \in PolarAdvertisers : StopEventWaitReturns(dev)
    \/ \E dev \in PolarAdvertisers : NotifyStopped(dev)
    \/ \E dev \in PolarAdvertisers : ClientClosed(dev)
    \/ polartest_sigint_handler
    \/ PolarMainGathers
    \/ PolarGatherReturns
    \/ PolarGatherRaises
    \/ PolarErrorSleepEnds

PolarTestSpec == PolarTestInit /\ [][PolarTestNext]_vars

-----------------------------------------------------------------------------
(* polartest.py's claim, under PolarTestSpec *)

\* the calls of a device_explore Task are in order: a stop write is made only
\* with the stop event set; before any stop_notify call the stop command of
\* every available measurement type was written; and the client's connection
\* is closed after every other call
PolarStopOrder ==
    \A d \in DOMAIN tasks :
        LET c == tasks[d].calls
        IN  \A i \in DOMAIN c :
               /\ c[i].what = "stop" => stop_event
               /\ c[i].kind = "stop_notify" =>
                     \A m \in tasks[d].available \cap {"ACC", "ECG", "PPG", "PPI"} :
                        \E j \in 1..(i - 1) :
                           c[j] = [kind |-> "write", what |-> "stop", of |-> m]
               /\ c[i].kind = "disconnect" => i = Len(c)

\* a Task wrote its stop commands, made its three stop_notify calls and is
\* closing its connection
PolarStopOrderWitness ==
    \E d \in DOMAIN tasks :
        /\ tasks[d].pc = "closing"
        /\ tasks[d].exc = "none"
        /\ tasks[d].available = {"ACC", "PPG", "PPI"}
        /\ Cardinality({i \in DOMAIN tasks[d].calls :
                           tasks[d].calls[i].kind = "stop_notify"}) = 3

\* C31: once the stop event is set, a device_explore Task writes the stop
\* command of every available measurement type before its first stop_notify
\* call and makes its stop_notify calls before its connection is closed; and
\* when main prints the statistics, every Task in tasks is done.
C31_StopOrderThenSummary ==
    /\ []PolarStopOrder
    /\ [][(main'.printed /\ ~main.printed) =>
            \A d \in DOMAIN tasks : tasks[d].pc = "done"]_vars

====
